---- MODULE Spec2Model ----
(***************************************************************************)
(* The AMM pool of src/pool/lib.rs (ink! contract `Pool`) as a state       *)
(* machine: one action per message, each message atomic (a panic reverts   *)
(* the whole call, so an aborted call leaves the storage untouched).       *)
(*                                                                         *)
(* Quantities of the two custodied tokens are bounded by the supply of the *)
(* two token ledgers and are held as TLA+ integers.  Quantities of the     *)
(* pool's own share token start at 100 * 10^18, beyond TLC's integers, and *)
(* are held as natural numbers in limbs (base Base, least limb first, no   *)
(* leading zero limb, so that equal numbers are equal sequences).  Within  *)
(* the bounds of the model every value stays far below 2^128, so no u128   *)
(* operation of the source overflows.                                      *)
(***************************************************************************)
EXTENDS Integers, Sequences, FiniteSets, TLC

\* ------------------------------------------------------------------------
\* u128 share quantities as limb sequences
\* ------------------------------------------------------------------------
Base == 10 ^ 4

Zero == << >>

RECURSIVE BigNorm(_)
BigNorm(a) ==
    IF a = << >> THEN << >>
    ELSE IF a[Len(a)] = 0 THEN BigNorm(SubSeq(a, 1, Len(a) - 1))
    ELSE a

RECURSIVE BigFromNat(_)
BigFromNat(n) ==
    IF n = 0 THEN << >> ELSE << n % Base >> \o BigFromNat(n \div Base)

Limb(a, i) == IF i <= Len(a) THEN a[i] ELSE 0

MaxOf(x, y) == IF x >= y THEN x ELSE y

RECURSIVE BigAddFrom(_, _, _, _)
BigAddFrom(a, b, i, carry) ==
    IF i > MaxOf(Len(a), Len(b))
    THEN (IF carry = 0 THEN << >> ELSE << carry >>)
    ELSE LET s == Limb(a, i) + Limb(b, i) + carry
         IN  << s % Base >> \o BigAddFrom(a, b, i + 1, s \div Base)

\* a + b
BigAdd(a, b) == BigAddFrom(a, b, 1, 0)

RECURSIVE BigCmpAt(_, _, _)
BigCmpAt(a, b, i) ==
    IF i = 0 THEN 0
    ELSE IF a[i] < b[i] THEN -1
    ELSE IF a[i] > b[i] THEN 1
    ELSE BigCmpAt(a, b, i - 1)

\* -1, 0, 1 as a < b, a = b, a > b
BigCmp(a, b) ==
    IF Len(a) < Len(b) THEN -1
    ELSE IF Len(a) > Len(b) THEN 1
    ELSE BigCmpAt(a, b, Len(a))

BigLt(a, b) == BigCmp(a, b) = -1
BigLeq(a, b) == BigCmp(a, b) # 1

RECURSIVE BigSubFrom(_, _, _, _)
BigSubFrom(a, b, i, borrow) ==
    IF i > Len(a) THEN << >>
    ELSE LET d == Limb(a, i) - Limb(b, i) - borrow
         IN  IF d < 0 THEN << d + Base >> \o BigSubFrom(a, b, i + 1, 1)
             ELSE << d >> \o BigSubFrom(a, b, i + 1, 0)

\* a - b, for b <= a
BigSub(a, b) == BigNorm(BigSubFrom(a, b, 1, 0))

RECURSIVE BigMulFrom(_, _, _, _)
BigMulFrom(a, n, i, carry) ==
    IF i > Len(a) THEN BigFromNat(carry)
    ELSE LET p == a[i] * n + carry
         IN  << p % Base >> \o BigMulFrom(a, n, i + 1, p \div Base)

\* a * n, n a token quantity
BigMulSmall(a, n) == BigNorm(BigMulFrom(a, n, 1, 0))

RECURSIVE BigDivFrom(_, _, _, _)
BigDivFrom(a, n, i, rem) ==
    IF i = 0 THEN << >>
    ELSE LET cur == rem * Base + a[i]
         IN  BigDivFrom(a, n, i - 1, cur % n) \o << cur \div n >>

\* a / n truncated, n > 0 a token quantity
BigDivSmall(a, n) == BigNorm(BigDivFrom(a, n, Len(a), 0))

RECURSIVE BigQuotIn(_, _, _, _)
BigQuotIn(x, d, lo, hi) ==
    IF lo >= hi THEN lo
    ELSE LET mid == (lo + hi + 1) \div 2
         IN  IF BigLeq(BigMulSmall(d, mid), x)
             THEN BigQuotIn(x, d, mid, hi)
             ELSE BigQuotIn(x, d, lo, mid - 1)

\* x / d truncated, for d > 0 and a quotient known to be at most hi
BigQuot(x, d, hi) == BigQuotIn(x, d, 0, hi)

RECURSIVE BigPow10(_)
BigPow10(e) == IF e = 0 THEN << 1 >> ELSE BigMulSmall(BigPow10(e - 1), 10)

\* ------------------------------------------------------------------------
\* Bounds of the model and the callers' inputs
\* ------------------------------------------------------------------------
\* messages that change the state in one behaviour
MaxSteps == 3
\* largest token amount a caller passes
MaxAmount == 2
\* tokens of each ledger every account holds when the pool is created
InitBalance == 2

Accounts == {"alice", "bob"}
\* the contract's own account (self.env().account_id())
Me == "pool"
Amounts == 0 .. MaxAmount
\* fees the pool may be constructed with (per mille)
FeeSet == {0, 3}

VARIABLES
    fees,          \* Pool.fees
    total_token1,  \* Pool.total_token1
    total_token2,  \* Pool.total_token2
    total_shares,  \* Pool.total_shares
    shares,        \* Pool.shares: account -> Option<u128>
    allowances,    \* Pool.allowances: (owner, spender) -> u128, absent read as 0
    erc1,          \* balances of the token1 ledger
    erc2,          \* balances of the token2 ledger
    last,          \* the last message: who sent what, its result, what it moved
    steps,         \* messages that changed the state so far
    pools,         \* Route.pools: (token1, token2) -> the pool's account
    route_fees     \* Route.fees

poolvars == << fees, total_token1, total_token2, total_shares, shares, allowances >>
ledgers == << erc1, erc2 >>
routevars == << pools, route_fees >>
vars == << fees, total_token1, total_token2, total_shares, shares, allowances,
           erc1, erc2, last, steps, pools, route_fees >>

None == [some |-> FALSE, v |-> Zero]
Some(x) == [some |-> TRUE, v |-> x]

NoCall == [op |-> "new", caller |-> "-", from |-> "-", to |-> "-", res |-> "Ok",
           share |-> Zero, out1 |-> 0, out2 |-> 0]

Fresh(fee, balance) ==
    /\ fees = fee
    /\ total_token1 = 0
    /\ total_token2 = 0
    /\ total_shares = Zero
    /\ shares = [a \in Accounts |-> None]
    /\ allowances = [p \in Accounts \X Accounts |-> Zero]
    /\ erc1 = [h \in Accounts \cup {Me} |-> IF h = Me THEN 0 ELSE balance]
    /\ erc2 = [h \in Accounts \cup {Me} |-> IF h = Me THEN 0 ELSE balance]
    /\ last = NoCall
    /\ steps = 0
    /\ pools = << >>
    /\ route_fees = 0

Init == \E fee \in FeeSet : Fresh(fee, InitBalance)

\* ------------------------------------------------------------------------
\* The token ledger the pool custodies (erc20::Erc20Ref)
\* ------------------------------------------------------------------------
\* a transfer of amount out of holder's balance succeeds
Erc20CanPay(bal, holder, amount) == bal[holder] >= amount

Erc20Move(bal, from, to, amount) ==
    [h \in DOMAIN bal |->
        IF h = from /\ h = to THEN bal[h]
        ELSE IF h = from THEN bal[h] - amount
        ELSE IF h = to THEN bal[h] + amount
        ELSE bal[h]]

\* ------------------------------------------------------------------------
\* Pool: helpers
\* ------------------------------------------------------------------------
\* a pool whose share token has 12 decimals
decimals_short == 18 - 6

decimals == 18

get_k == total_token1 * total_token2

\* active_pool looking at one reserve only
active_pool_token1 == total_token1 # 0

\* TRUE when active_pool() returns Ok(())
active_pool == get_k # 0

balance_of(owner) == IF shares[owner].some THEN shares[owner].v ELSE Zero

allowance(owner, spender) == allowances[<< owner, spender >>]

\* a reserve with no payout booked
reserve_after_payout_kept(total, amount) == total

\* a reserve once amount is paid out of it, lines 190-191, 258, 287, 349, 379
reserve_after_payout(total, amount) == total - amount

Ok(x) == [res |-> "Ok", val |-> x]
Err(e) == [res |-> e, val |-> 0]

\* A message that returned an error or panicked ("Abort"): the storage and the
\* ledgers are as before the call.  The state after it differs from the state
\* before it in `last` alone, so a behaviour is not explored beyond it: every
\* call that could follow it also follows the state before it.
Refused(op, caller, from, to, share, res) ==
    /\ last' = [op |-> op, caller |-> caller, from |-> from, to |-> to, res |-> res,
                share |-> share, out1 |-> 0, out2 |-> 0]
    /\ steps' = MaxSteps
    /\ UNCHANGED << poolvars, ledgers, routevars >>

Returned(op, caller, res) == Refused(op, caller, "-", "-", Zero, res)

\* A message that completed: share is the share quantity it issued, burned,
\* moved or approved, out1 and out2 the token1 and token2 quantities it moved.
\* When it left the storage and the ledgers as they were (a transfer of
\* nothing, say), the behaviour is not explored beyond it either.
Done(op, caller, from, to, share, out1, out2) ==
    /\ last' = [op |-> op, caller |-> caller, from |-> from, to |-> to, res |-> "Ok",
                share |-> share, out1 |-> out1, out2 |-> out2]
    /\ steps' = IF poolvars' = poolvars /\ ledgers' = ledgers THEN MaxSteps
                ELSE steps + 1
    /\ UNCHANGED routevars

\* another message is explored
Step == steps < MaxSteps

\* ------------------------------------------------------------------------
\* Pool: liquidity
\* ------------------------------------------------------------------------
get_equivalent_token1_estimate_given_token2(amount_token2) ==
    IF ~active_pool THEN Err("ZeroLiquidity")
    ELSE Ok((total_token1 * amount_token2) \div total_token2)

get_equivalent_token2_estimate_given_token1(amount_token1) ==
    IF ~active_pool THEN Err("ZeroLiquidity")
    ELSE Ok((total_token2 * amount_token1) \div total_token1)

\* the share add_liquidity issues, lines 125-141
add_liquidity_share(amount_token1, amount_token2) ==
    IF total_shares = Zero
    THEN [res |-> "Ok", share |-> BigMulSmall(BigPow10(decimals), 100)]
    ELSE IF total_token1 = 0 \/ total_token2 = 0
    THEN [res |-> "Abort", share |-> Zero]   \* division by zero
    ELSE LET share1 == BigDivSmall(BigMulSmall(total_shares, amount_token1), total_token1)
             share2 == BigDivSmall(BigMulSmall(total_shares, amount_token2), total_token2)
         IN  IF share1 # share2 THEN [res |-> "NonEquivalentValue", share |-> Zero]
             ELSE IF share1 = Zero THEN [res |-> "ThresholdNotReached", share |-> Zero]
             ELSE [res |-> "Ok", share |-> share1]

AddLiquidity(caller, amount_token1, amount_token2) ==
    LET r == add_liquidity_share(amount_token1, amount_token2)
        e1 == Erc20Move(erc1, caller, Me, amount_token1)
        e2 == Erc20Move(erc2, caller, Me, amount_token2)
        new_share == IF shares[caller].some THEN BigAdd(shares[caller].v, r.share)
                     ELSE r.share
    IN
    /\ IF r.res # "Ok"
       THEN Returned("add_liquidity", caller, r.res)
       ELSE IF \/ ~Erc20CanPay(erc1, caller, amount_token1)
               \/ ~Erc20CanPay(erc2, caller, amount_token2)
               \/ e1[Me] # total_token1 + amount_token1     \* assert_eq!, line 153
               \/ e2[Me] # total_token2 + amount_token2     \* assert_eq!, line 156
       THEN Returned("add_liquidity", caller, "Abort")
       ELSE /\ erc1' = e1
            /\ erc2' = e2
            /\ total_token1' = total_token1 + amount_token1
            /\ total_token2' = total_token2 + amount_token2
            /\ total_shares' = BigAdd(total_shares, r.share)
            /\ shares' = [shares EXCEPT ![caller] = Some(new_share)]
            /\ UNCHANGED << fees, allowances >>
            /\ Done("add_liquidity", caller, "-", "-", r.share,
                    amount_token1, amount_token2)

\* get_withdraw_estimate with the two reserves exchanged
get_withdraw_estimate_crossed(share) ==
    IF ~active_pool THEN [res |-> "ZeroLiquidity", amount1 |-> 0, amount2 |-> 0]
    ELSE IF BigLt(total_shares, share)
    THEN [res |-> "InvalidShare", amount1 |-> 0, amount2 |-> 0]
    ELSE IF total_shares = Zero
    THEN [res |-> "Abort", amount1 |-> 0, amount2 |-> 0]
    ELSE [res |-> "Ok",
          amount1 |-> BigQuot(BigMulSmall(share, total_token2), total_shares, total_token2),
          amount2 |-> BigQuot(BigMulSmall(share, total_token1), total_shares, total_token1)]

get_withdraw_estimate(share) ==
    IF ~active_pool THEN [res |-> "ZeroLiquidity", amount1 |-> 0, amount2 |-> 0]
    ELSE IF BigLt(total_shares, share)
    THEN [res |-> "InvalidShare", amount1 |-> 0, amount2 |-> 0]
    ELSE IF total_shares = Zero
    THEN [res |-> "Abort", amount1 |-> 0, amount2 |-> 0]   \* division by zero
    ELSE [res |-> "Ok",
          amount1 |-> BigQuot(BigMulSmall(share, total_token1), total_shares, total_token1),
          amount2 |-> BigQuot(BigMulSmall(share, total_token2), total_shares, total_token2)]

RemoveLiquidity(caller, share) ==
    LET r == get_withdraw_estimate(share)
    IN
    /\ IF BigLt(balance_of(caller), share)                  \* assert!, line 183
       THEN Returned("remove_liquidity", caller, "Abort")
       ELSE IF r.res # "Ok"
       THEN Returned("remove_liquidity", caller, r.res)
       ELSE IF \/ ~shares[caller].some                      \* unwrap(), line 186
               \/ ~Erc20CanPay(erc1, Me, r.amount1)
               \/ ~Erc20CanPay(erc2, Me, r.amount2)
       THEN Returned("remove_liquidity", caller, "Abort")
       ELSE /\ shares' = [shares EXCEPT ![caller] = Some(BigSub(shares[caller].v, share))]
            /\ total_shares' = BigSub(total_shares, share)
            /\ total_token1' = reserve_after_payout(total_token1, r.amount1)
            /\ total_token2' = reserve_after_payout(total_token2, r.amount2)
            /\ erc1' = Erc20Move(erc1, Me, caller, r.amount1)
            /\ erc2' = Erc20Move(erc2, Me, caller, r.amount2)
            /\ UNCHANGED << fees, allowances >>
            /\ Done("remove_liquidity", caller, "-", "-", share, r.amount1, r.amount2)

\* ------------------------------------------------------------------------
\* Pool: swap quotes
\* ------------------------------------------------------------------------
\* get_swap_token1_estimate_given_token1 without the decrement of lines 214-216
get_swap_token1_estimate_given_token1_whole(amount_token1) ==
    IF ~active_pool THEN Err("ZeroLiquidity")
    ELSE LET amount_after_fee == (amount_token1 * (1000 - fees)) \div 1000
             token1_after == total_token1 + amount_after_fee
             token2_after == get_k \div token1_after
         IN  Ok(total_token2 - token2_after)

get_swap_token1_estimate_given_token1(amount_token1) ==
    IF ~active_pool THEN Err("ZeroLiquidity")
    ELSE LET amount_after_fee == (amount_token1 * (1000 - fees)) \div 1000
             token1_after == total_token1 + amount_after_fee
             token2_after == get_k \div token1_after
             amount_token2 == total_token2 - token2_after
         IN  IF amount_token2 = total_token2 THEN Ok(amount_token2 - 1)
             ELSE Ok(amount_token2)

get_swap_token1_estimate_given_token2(amount_token2) ==
    IF ~active_pool THEN Err("ZeroLiquidity")
    ELSE IF amount_token2 >= total_token2 THEN Err("InsufficientLiquidity")
    ELSE LET token2_after == total_token2 - amount_token2
             token1_after == get_k \div token2_after
         IN  IF 1000 - fees = 0 THEN Err("Abort")   \* division by zero
             ELSE Ok(((token1_after - total_token1) * 1000) \div (1000 - fees))

get_swap_token2_estimate_given_token2(amount_token2) ==
    IF ~active_pool THEN Err("ZeroLiquidity")
    ELSE LET amount_after_fee == (amount_token2 * (1000 - fees)) \div 1000
             token2_after == total_token2 + amount_after_fee
             token1_after == get_k \div token2_after
             amount_token1 == total_token1 - token1_after
         IN  IF amount_token1 = total_token1 THEN Ok(amount_token1 - 1)
             ELSE Ok(amount_token1)

get_swap_token2_estimate_given_token1(amount_token1) ==
    IF ~active_pool THEN Err("ZeroLiquidity")
    ELSE IF amount_token1 >= total_token1 THEN Err("InsufficientLiquidity")
    ELSE LET token1_after == total_token1 - amount_token1
             token2_after == get_k \div token1_after
         IN  IF 1000 - fees = 0 THEN Err("Abort")   \* division by zero
             ELSE Ok(((token2_after - total_token2) * 1000) \div (1000 - fees))

\* ------------------------------------------------------------------------
\* Pool: swap execution
\* ------------------------------------------------------------------------
\* the minimum compared one off
below_minimum_lax(amount, min) == amount + 1 < min

\* the caller's minimum is not met, lines 246 and 337
below_minimum(amount, min) == amount < min

\* the caller's maximum is exceeded, lines 275 and 367
above_maximum(amount, max) == amount > max

\* token1_in of token1 pulled from the caller, token2_out of token2 pushed to
\* the caller, once the swap is quoted and accepted
Token1ForToken2(op, caller, token1_in, token2_out) ==
    LET e1 == Erc20Move(erc1, caller, Me, token1_in)
    IN  IF \/ ~Erc20CanPay(erc1, caller, token1_in)
           \/ e1[Me] # total_token1 + token1_in             \* assert_eq!
           \/ total_token2 < token2_out
           \/ ~Erc20CanPay(erc2, Me, token2_out)
        THEN Returned(op, caller, "Abort")
        ELSE /\ erc1' = e1
             /\ total_token1' = total_token1 + token1_in
             /\ total_token2' = reserve_after_payout(total_token2, token2_out)
             /\ erc2' = Erc20Move(erc2, Me, caller, token2_out)
             /\ UNCHANGED << fees, total_shares, shares, allowances >>
             /\ Done(op, caller, "-", "-", Zero, token1_in, token2_out)

\* token2_in of token2 pulled from the caller, token1_out of token1 pushed to
\* the caller, once the swap is quoted and accepted
Token2ForToken1(op, caller, token2_in, token1_out) ==
    LET e2 == Erc20Move(erc2, caller, Me, token2_in)
    IN  IF \/ ~Erc20CanPay(erc2, caller, token2_in)
           \/ e2[Me] # total_token2 + token2_in             \* assert_eq!
           \/ total_token1 < token1_out
           \/ ~Erc20CanPay(erc1, Me, token1_out)
        THEN Returned(op, caller, "Abort")
        ELSE /\ erc2' = e2
             /\ total_token2' = total_token2 + token2_in
             /\ total_token1' = reserve_after_payout(total_token1, token1_out)
             /\ erc1' = Erc20Move(erc1, Me, caller, token1_out)
             /\ UNCHANGED << fees, total_shares, shares, allowances >>
             /\ Done(op, caller, "-", "-", Zero, token1_out, token2_in)

SwapToken1GivenToken1(caller, amount_token1, min_token2) ==
    LET q == get_swap_token1_estimate_given_token1(amount_token1)
    IN
    /\ IF q.res # "Ok"
       THEN Returned("swap_token1_given_token1", caller, q.res)
       ELSE IF below_minimum(q.val, min_token2)
       THEN Returned("swap_token1_given_token1", caller, "SlippageExceeded")
       ELSE Token1ForToken2("swap_token1_given_token1", caller, amount_token1, q.val)

SwapToken1GivenToken2(caller, amount_token2, max_token1) ==
    LET q == get_swap_token1_estimate_given_token2(amount_token2)
    IN
    /\ IF q.res # "Ok"
       THEN Returned("swap_token1_given_token2", caller, q.res)
       ELSE IF above_maximum(q.val, max_token1)
       THEN Returned("swap_token1_given_token2", caller, "SlippageExceeded")
       ELSE Token1ForToken2("swap_token1_given_token2", caller, q.val, amount_token2)

SwapToken2GivenToken2(caller, amount_token2, min_token1) ==
    LET q == get_swap_token2_estimate_given_token2(amount_token2)
    IN
    /\ IF q.res # "Ok"
       THEN Returned("swap_token2_given_token2", caller, q.res)
       ELSE IF below_minimum(q.val, min_token1)
       THEN Returned("swap_token2_given_token2", caller, "SlippageExceeded")
       ELSE Token2ForToken1("swap_token2_given_token2", caller, amount_token2, q.val)

SwapToken2GivenToken1(caller, amount_token1, max_token2) ==
    LET q == get_swap_token2_estimate_given_token1(amount_token1)
    IN
    /\ IF q.res # "Ok"
       THEN Returned("swap_token2_given_token1", caller, q.res)
       ELSE IF above_maximum(q.val, max_token2)
       THEN Returned("swap_token2_given_token1", caller, "SlippageExceeded")
       ELSE Token2ForToken1("swap_token2_given_token1", caller, q.val, amount_token1)

\* ------------------------------------------------------------------------
\* Pool: the share token
\* ------------------------------------------------------------------------
\* transfer_from_to with the recipient's balance read before the sender's entry
\* is written
transfer_from_to_stale(from, to, value) ==
    LET to_balance == balance_of(to)
        debited == [shares EXCEPT ![from] = Some(BigSub(balance_of(from), value))]
    IN  [debited EXCEPT ![to] = Some(BigAdd(to_balance, value))]

\* the shares mapping after transfer_from_to(from, to, value), for
\* value <= balance_of(from): the recipient's balance is read after the
\* sender's entry is written (lines 452-454)
transfer_from_to(from, to, value) ==
    LET debited == [shares EXCEPT ![from] = Some(BigSub(balance_of(from), value))]
        to_balance == IF debited[to].some THEN debited[to].v ELSE Zero
    IN  [debited EXCEPT ![to] = Some(BigAdd(to_balance, value))]

Transfer(caller, to, value) ==
    /\ IF BigLt(balance_of(caller), value)
       THEN Refused("transfer", caller, caller, to, value, "InsufficientBalance")
       ELSE /\ shares' = transfer_from_to(caller, to, value)
            /\ UNCHANGED << fees, total_token1, total_token2, total_shares,
                            allowances, ledgers >>
            /\ Done("transfer", caller, caller, to, value, 0, 0)

Approve(caller, spender, value) ==
    /\ allowances' = [allowances EXCEPT ![<< caller, spender >>] = value]
    /\ UNCHANGED << fees, total_token1, total_token2, total_shares, shares, ledgers >>
    /\ Done("approve", caller, caller, spender, value, 0, 0)

\* the allowance looked up under (caller, from)
allowance_too_low_swapped(from, caller, value) == BigLt(allowance(caller, from), value)

\* transfer_from's check of the caller's allowance, lines 431-434
allowance_too_low(from, caller, value) == BigLt(allowance(from, caller), value)

\* the allowance left as it was
allowance_after_kept(from, caller, value) == allowance(from, caller)

\* the allowance transfer_from writes back, lines 436-437
allowance_after(from, caller, value) == BigSub(allowance(from, caller), value)

TransferFrom(caller, from, to, value) ==
    /\ IF allowance_too_low(from, caller, value)
       THEN Refused("transfer_from", caller, from, to, value, "InsufficientAllowance")
       ELSE IF BigLt(balance_of(from), value)
       THEN Refused("transfer_from", caller, from, to, value, "InsufficientBalance")
       ELSE /\ shares' = transfer_from_to(from, to, value)
            /\ allowances' = [allowances EXCEPT ![<< from, caller >>] =
                                 allowance_after(from, caller, value)]
            /\ UNCHANGED << fees, total_token1, total_token2, total_shares, ledgers >>
            /\ Done("transfer_from", caller, from, to, value, 0, 0)

\* ------------------------------------------------------------------------
\* The callers
\* ------------------------------------------------------------------------
One == << 1 >>

\* share quantities a caller passes when owner's balance is at stake: none,
\* all of it, one more than it, and the quantity the last call issued or moved
ShareArgs(owner) ==
    { Zero, balance_of(owner), BigAdd(balance_of(owner), One), last.share }

\* Init treats the two accounts alike, so every behaviour has a mirror image
\* with the accounts exchanged: the first message is taken to come from alice.
Callers == IF steps = 0 THEN {"alice"} ELSE Accounts

Next ==
    \/ Step /\ \E c \in Callers, x \in Amounts, y \in Amounts : AddLiquidity(c, x, y)
    \/ Step /\ \E c \in Callers : \E s \in ShareArgs(c) : RemoveLiquidity(c, s)
    \/ Step /\ \E c \in Callers, x \in Amounts, y \in Amounts :
                  SwapToken1GivenToken1(c, x, y)
    \/ Step /\ \E c \in Callers, x \in Amounts, y \in Amounts :
                  SwapToken1GivenToken2(c, x, y)
    \/ Step /\ \E c \in Callers, x \in Amounts, y \in Amounts :
                  SwapToken2GivenToken2(c, x, y)
    \/ Step /\ \E c \in Callers, x \in Amounts, y \in Amounts :
                  SwapToken2GivenToken1(c, x, y)
    \/ Step /\ \E c \in Callers, t \in Accounts : \E v \in ShareArgs(c) : Transfer(c, t, v)
    \/ Step /\ \E c \in Callers, t \in Accounts : \E v \in ShareArgs(c) : Approve(c, t, v)
    \/ Step /\ \E c \in Callers, f \in Accounts, t \in Accounts :
                  \E v \in ShareArgs(f) : TransferFrom(c, f, t, v)

Spec == Init /\ [][Next]_vars

\* ------------------------------------------------------------------------
\* The worked example: a pool of fee 3 whose callers deal in hundreds
\* ------------------------------------------------------------------------
\* tokens of each ledger every account holds in the example
ExBalance == 1100
ExAmounts == {100, 1000}
ExLimits == {0, 91, 1000}

InitEx == Fresh(3, ExBalance)

NextEx ==
    \/ Step /\ \E c \in Callers, x \in ExAmounts, y \in ExAmounts : AddLiquidity(c, x, y)
    \/ Step /\ \E c \in Callers : \E s \in ShareArgs(c) : RemoveLiquidity(c, s)
    \/ Step /\ \E c \in Callers, x \in ExAmounts, y \in ExLimits :
                  SwapToken1GivenToken1(c, x, y)
    \/ Step /\ \E c \in Callers, x \in ExAmounts, y \in ExLimits :
                  SwapToken1GivenToken2(c, x, y)
    \/ Step /\ \E c \in Callers, x \in ExAmounts, y \in ExLimits :
                  SwapToken2GivenToken2(c, x, y)
    \/ Step /\ \E c \in Callers, x \in ExAmounts, y \in ExLimits :
                  SwapToken2GivenToken1(c, x, y)
    \/ Step /\ \E c \in Callers, t \in Accounts : \E v \in ShareArgs(c) : Transfer(c, t, v)
    \/ Step /\ \E c \in Callers, t \in Accounts : \E v \in ShareArgs(c) : Approve(c, t, v)
    \/ Step /\ \E c \in Callers, f \in Accounts, t \in Accounts :
                  \E v \in ShareArgs(f) : TransferFrom(c, f, t, v)

SpecEx == InitEx /\ [][NextEx]_vars

\* ------------------------------------------------------------------------
\* Pools of every fee up to the whole amount (1000 per mille)
\* ------------------------------------------------------------------------
InitFee == \E fee \in FeeSet \cup {1000} : Fresh(fee, InitBalance)

SpecFee == InitFee /\ [][Next]_vars

\* ------------------------------------------------------------------------
\* Route (src/route/lib.rs): the registry of pools
\* ------------------------------------------------------------------------
\* longest path a caller passes to swap_token
MaxPath == 3

Tokens == {"tokenA", "tokenB", "tokenC"}
CodeHashes == {"pool_code"}
Paths == UNION { [1 .. n -> Tokens] : n \in 0 .. MaxPath }

\* the account of the pool PoolRef::new(token1, token2, fee) instantiates from
\* code_hash (the environment derives it from the code and the constructor's
\* arguments)
Instantiate(token1, token2, fee, code_hash) ==
    [token1 |-> token1, token2 |-> token2, fees |-> fee, code |-> code_hash]

\* pair_exists looking the pair up in the order given only
pair_exists_ordered(token1, token2) == << token1, token2 >> \in DOMAIN pools

pair_exists(token1, token2) ==
    IF << token1, token2 >> \in DOMAIN pools THEN TRUE
    ELSE << token2, token1 >> \in DOMAIN pools

RouteCall(op, token1, token2, res) ==
    [op |-> op, caller |-> "-", from |-> token1, to |-> token2, res |-> res,
     share |-> Zero, out1 |-> 0, out2 |-> 0]

\* deployed: the environment instantiates the pool (FALSE: instantiate() fails
\* and the call panics)
CreatePool(token1, token2, pool_code_hash, deployed) ==
    /\ IF pair_exists(token1, token2) \/ ~deployed
       THEN /\ pools' = pools
            /\ last' = RouteCall("create_pool", token1, token2, "Abort")
       ELSE /\ pools' = (<< token1, token2 >> :>
                             Instantiate(token1, token2, route_fees, pool_code_hash))
                        @@ pools
            /\ last' = RouteCall("create_pool", token1, token2, "Ok")
    /\ UNCHANGED << route_fees, poolvars, ledgers, steps >>

\* swap_token accepting a path of one token
path_too_short_one(path) == Len(path) < 1

\* the assert of line 59 fails
path_too_short(path) == Len(path) < 2

\* the loop of lines 62-67 from index i on (indices from 1 here): TRUE when no
\* assert fails
RECURSIVE WalkPath(_, _)
WalkPath(path, i) ==
    IF i > Len(path) THEN TRUE
    ELSE IF ~pair_exists(path[i - 1], path[i]) THEN FALSE
    ELSE WalkPath(path, i + 1)

\* The registry, the fee and the pools are as before the call (the swap itself
\* is a @todo, line 65): the state after it differs from the state before it
\* in `last` alone, which records the path, and a behaviour is not explored
\* beyond it.
SwapToken(path, value) ==
    /\ last' = RouteCall("swap_token", path, "-",
                         IF path_too_short(path) THEN "Abort"
                         ELSE IF ~WalkPath(path, 2) THEN "Abort"
                         ELSE "Ok")
    /\ steps' = MaxSteps
    /\ UNCHANGED << routevars, poolvars, ledgers >>

\* a router and, beside it, a pool as the router creates them (fee route_fees)
InitRoute == Fresh(0, InitBalance)

NextRoute ==
    \/ Step /\ \E a \in Tokens, b \in Tokens, h \in CodeHashes, d \in BOOLEAN :
                  CreatePool(a, b, h, d)
    \/ Step /\ \E p \in Paths, v \in Amounts : SwapToken(p, v)

SpecRoute == InitRoute /\ [][NextRoute]_vars

\* ------------------------------------------------------------------------
\* Properties
\* ------------------------------------------------------------------------
SwapOps == { "swap_token1_given_token1", "swap_token1_given_token2",
             "swap_token2_given_token2", "swap_token2_given_token1" }

\* the pool constant after the step is at least the one before, and more when
\* a fee is charged on a swap amount of amount > 0
KGrows(amount) ==
    /\ total_token1' * total_token2' >= total_token1 * total_token2
    /\ (fees > 0 /\ amount > 0) =>
           total_token1' * total_token2' > total_token1 * total_token2

\* C1: across every successful execution of any of the four swaps the product
\* total_token1 * total_token2 does not decrease, and it strictly increases
\* whenever fee > 0 and the swap amount argument is > 0.
C1_KNeverDecreases ==
    [][\A c \in Accounts, x \in Amounts, y \in Amounts :
          /\ (SwapToken1GivenToken1(c, x, y) /\ last'.res = "Ok") => KGrows(x)
          /\ (SwapToken1GivenToken2(c, x, y) /\ last'.res = "Ok") => KGrows(x)
          /\ (SwapToken2GivenToken2(c, x, y) /\ last'.res = "Ok") => KGrows(x)
          /\ (SwapToken2GivenToken1(c, x, y) /\ last'.res = "Ok") => KGrows(x)]_vars

RECURSIVE BigSum(_, _)
BigSum(f, S) ==
    IF S = {} THEN Zero
    ELSE LET a == CHOOSE a \in S : TRUE
         IN  BigAdd(f[a], BigSum(f, S \ {a}))

\* the sum of all entries of the shares mapping, an absent entry counting 0
SumOfShares == BigSum([a \in Accounts |-> balance_of(a)], Accounts)

\* C2: in every reachable state the sum of all entries of the shares mapping
\* equals total_shares.
C2_SharesSumToTotal == SumOfShares = total_shares

\* C2 witness: an account has just transferred its whole positive balance to
\* itself.
C2_Witness ==
    /\ last.op = "transfer"
    /\ last.res = "Ok"
    /\ last.from = last.to
    /\ last.share # Zero

\* C3: total_token1 * total_token2 = 0 exactly when total_shares = 0.
C3_KZeroIffNoShares == (get_k = 0) <=> (total_shares = Zero)

\* C4: for the pool with total_token1 = 1000, total_token2 = 1000 and fee 3,
\* get_swap_token1_estimate_given_token1(100) returns 90 and
\* swap_token1_given_token1(100, 91) returns SlippageExceeded.
C4_Example ==
    [][(total_token1 = 1000 /\ total_token2 = 1000 /\ fees = 3) =>
          /\ get_swap_token1_estimate_given_token1(100) = Ok(90)
          /\ \A c \in Accounts :
                SwapToken1GivenToken1(c, 100, 91) => last'.res = "SlippageExceeded"]_vars

\* the call returns SlippageExceeded and the post-state equals the pre-state
Slipped ==
    /\ last'.res = "SlippageExceeded"
    /\ UNCHANGED << poolvars, ledgers >>

\* each call of the given-input swap op whose quote is below the caller's
\* minimum is refused
MinimumEnforced(op, quote(_), Swap(_, _, _)) ==
    (last'.op = op) =>
        \A x \in Amounts :
            (quote(x).res = "Ok") =>
                \A y \in Amounts :
                    (quote(x).val < y /\ Swap(last'.caller, x, y)) => Slipped

\* each call of the given-output swap op whose quote is above the caller's
\* maximum is refused
MaximumEnforced(op, quote(_), Swap(_, _, _)) ==
    (last'.op = op) =>
        \A x \in Amounts :
            (quote(x).res = "Ok") =>
                \A y \in Amounts :
                    (quote(x).val > y /\ Swap(last'.caller, x, y)) => Slipped

\* C5: whenever the quote computed in the pre-state violates the caller's
\* bound (output < minimum for the given-input swaps, input > maximum for the
\* given-output swaps), the swap returns SlippageExceeded and reserves,
\* total_shares, share balances, allowances and ledger balances are unchanged.
C5_SlippageRefused ==
    [][/\ MinimumEnforced("swap_token1_given_token1",
                          get_swap_token1_estimate_given_token1, SwapToken1GivenToken1)
       /\ MaximumEnforced("swap_token1_given_token2",
                          get_swap_token1_estimate_given_token2, SwapToken1GivenToken2)
       /\ MinimumEnforced("swap_token2_given_token2",
                          get_swap_token2_estimate_given_token2, SwapToken2GivenToken2)
       /\ MaximumEnforced("swap_token2_given_token1",
                          get_swap_token2_estimate_given_token1, SwapToken2GivenToken1)]_vars

\* C5 witness: a given-input swap on a pool with liquidity was refused for
\* slippage.
C5_Witness ==
    /\ last.op = "swap_token2_given_token2"
    /\ last.res = "SlippageExceeded"
    /\ active_pool

\* C6: for every amount1 whose forward quote a2 satisfies 0 < a2 < total_token2,
\* the reverse quote for a2 in the same state requires at least amount1.
C6_ReverseQuoteNotCheaper ==
    \A x \in Amounts :
        LET forward == get_swap_token1_estimate_given_token1(x)
        IN  ( /\ active_pool
              /\ forward.res = "Ok"
              /\ 0 < forward.val
              /\ forward.val < total_token2 ) =>
                LET reverse == get_swap_token1_estimate_given_token2(forward.val)
                IN  reverse.res = "Ok" /\ reverse.val >= x

\* C7: with total_shares > 0, add_liquidity with amounts off the pool's reserve
\* ratio returns NonEquivalentValue and leaves reserves, total_shares and share
\* balances unchanged.
C7_OffRatioRefused ==
    [][\A c \in Accounts, x \in Amounts, y \in Amounts :
          ( /\ AddLiquidity(c, x, y)
            /\ total_shares # Zero
            /\ x * total_token2 # y * total_token1 ) =>
              /\ last'.res = "NonEquivalentValue"
              /\ UNCHANGED << total_token1, total_token2, total_shares, shares >>]_vars

\* C8: when add_liquidity(amount1, amount2) succeeds returning s and the same
\* caller then calls remove_liquidity(s) with no call in between, the returned
\* pair (out1, out2) has out1 <= amount1 and out2 <= amount2.
C8_RoundTripNoGain ==
    [][( /\ last.op = "add_liquidity"
         /\ last.res = "Ok"
         /\ last'.op = "remove_liquidity"
         /\ last'.res = "Ok"
         /\ last'.caller = last.caller
         /\ last'.share = last.share ) =>
           /\ last'.out1 <= last.out1
           /\ last'.out2 <= last.out2]_vars

\* C8 witness: a deposit into a pool that already had shares outstanding has
\* just succeeded, and removing the issued share is the next call.
C8_Witness ==
    /\ last.op = "add_liquidity"
    /\ last.res = "Ok"
    /\ total_shares # last.share
    /\ last.out1 > 0
    /\ Step
    /\ ~BigLt(balance_of(last.caller), last.share)
    /\ get_withdraw_estimate(last.share).res = "Ok"

\* 100 * 10^18 = 1 * Base^5
HundredE18 == << 0, 0, 0, 0, 0, 1 >>

\* C9: whenever total_shares = 0, a successful add_liquidity returns exactly
\* 100 * 10^18 and credits exactly that many shares to the caller, whatever the
\* two amounts.
C9_GenesisShare ==
    [][(total_shares = Zero /\ last'.op = "add_liquidity" /\ last'.res = "Ok") =>
          \A x \in Amounts, y \in Amounts :
              AddLiquidity(last'.caller, x, y) =>
                  /\ last'.share = HundredE18
                  /\ shares'[last'.caller] =
                         Some(BigAdd(balance_of(last'.caller), HundredE18))]_vars

\* C9 witness: a genesis deposit of unequal amounts has issued 100 * 10^18.
C9_Witness ==
    /\ last.op = "add_liquidity"
    /\ last.res = "Ok"
    /\ total_shares = last.share
    /\ last.share = HundredE18
    /\ last.out1 # last.out2

\* C10: transfer_from by a spender whose allowance is below value returns
\* InsufficientAllowance and leaves share balances, allowances and total_shares
\* unchanged, whatever from's balance.
C10_AllowanceRefused ==
    [][\A f \in Accounts, t \in Accounts :
          ( /\ last'.op = "transfer_from"
            /\ last'.from = f
            /\ last'.to = t
            /\ BigLt(allowance(f, last'.caller), last'.share)
            /\ TransferFrom(last'.caller, f, t, last'.share) ) =>
              /\ last'.res = "InsufficientAllowance"
              /\ UNCHANGED << shares, allowances, total_shares >>]_vars

\* C10 witness: a transfer_from within from's balance was refused for allowance.
C10_Witness ==
    /\ last.op = "transfer_from"
    /\ last.res = "InsufficientAllowance"
    /\ last.share # Zero
    /\ BigLeq(last.share, balance_of(last.from))

\* C11: in every state with total_token1 * total_token2 = 0, the four swap
\* quotes, both get_equivalent_* estimates and get_withdraw_estimate return
\* ZeroLiquidity, and each of the four swap executions returns ZeroLiquidity
\* and leaves the pool state and the ledger balances unchanged.
C11_ZeroLiquidity ==
    [][(get_k = 0) =>
          /\ \A x \in Amounts :
                /\ get_swap_token1_estimate_given_token1(x).res = "ZeroLiquidity"
                /\ get_swap_token1_estimate_given_token2(x).res = "ZeroLiquidity"
                /\ get_swap_token2_estimate_given_token2(x).res = "ZeroLiquidity"
                /\ get_swap_token2_estimate_given_token1(x).res = "ZeroLiquidity"
                /\ get_equivalent_token1_estimate_given_token2(x).res = "ZeroLiquidity"
                /\ get_equivalent_token2_estimate_given_token1(x).res = "ZeroLiquidity"
          /\ \A a \in Accounts : \A s \in ShareArgs(a) :
                get_withdraw_estimate(s).res = "ZeroLiquidity"
          /\ (last'.op \in SwapOps) =>
                /\ last'.res = "ZeroLiquidity"
                /\ UNCHANGED << poolvars, ledgers >>]_vars

\* C11 witness: a swap was refused for want of liquidity on a pool that has
\* issued shares and holds one reserve only.
C11_Witness ==
    /\ last.op \in SwapOps
    /\ last.res = "ZeroLiquidity"
    /\ total_shares # Zero
    /\ total_token1 > 0
    /\ get_k = 0

\* the unordered pair {a, b} has an entry in the registry
Registered(a, b) == << a, b >> \in DOMAIN pools \/ << b, a >> \in DOMAIN pools

\* no unordered pair of distinct tokens is entered under both orderings
OneEntryPerPair ==
    \A a \in Tokens, b \in Tokens :
        (a # b) => ~(<< a, b >> \in DOMAIN pools /\ << b, a >> \in DOMAIN pools)

\* every entry of the registry is still there with the same pool
EntriesKept == \A k \in DOMAIN pools : k \in DOMAIN pools' /\ pools'[k] = pools[k]

\* C12: the registry never holds both (a, b) and (b, a); create_pool(a, b)
\* aborts and leaves the registry unchanged when either ordering is
\* registered; an entry once created is never removed or overwritten.
C12_OnePoolPerPair ==
    /\ []OneEntryPerPair
    /\ [][/\ EntriesKept
          /\ (last'.op = "create_pool") =>
                \A h \in CodeHashes, d \in BOOLEAN :
                    ( /\ Registered(last'.from, last'.to)
                      /\ CreatePool(last'.from, last'.to, h, d) ) =>
                        (last'.res = "Abort" /\ pools' = pools)]_vars

\* C12 witness: create_pool(a, b) was refused while (b, a) is registered and
\* (a, b) is not.
C12_Witness ==
    /\ last.op = "create_pool"
    /\ last.res = "Abort"
    /\ last.from # last.to
    /\ << last.to, last.from >> \in DOMAIN pools
    /\ << last.from, last.to >> \notin DOMAIN pools

\* C13: a successful add_liquidity leaves the pool Active
\* (total_token1 * total_token2 > 0), and a pool that is Active is Active
\* after every operation.
C13_ActiveForGood ==
    [][/\ (last'.op = "add_liquidity" /\ last'.res = "Ok") =>
              total_token1' * total_token2' > 0
       /\ (get_k > 0) => total_token1' * total_token2' > 0]_vars

\* C14: after every successful swap both reserves are positive; in an Active
\* pool the given-input quotes never return the whole opposite reserve and the
\* given-output quotes return InsufficientLiquidity when the output asked for
\* is at least the reserve.
C14_NoDrain ==
    [][/\ (last'.op \in SwapOps /\ last'.res = "Ok") =>
              (total_token1' > 0 /\ total_token2' > 0)
       /\ active_pool =>
              \A x \in Amounts :
                  /\ get_swap_token1_estimate_given_token1(x).res = "Ok"
                  /\ get_swap_token1_estimate_given_token1(x).val < total_token2
                  /\ get_swap_token2_estimate_given_token2(x).res = "Ok"
                  /\ get_swap_token2_estimate_given_token2(x).val < total_token1
                  /\ (x >= total_token2) =>
                        get_swap_token1_estimate_given_token2(x).res
                            = "InsufficientLiquidity"
                  /\ (x >= total_token1) =>
                        get_swap_token2_estimate_given_token1(x).res
                            = "InsufficientLiquidity"]_vars

\* C14 witness: a given-input swap that brought in at least the whole token1
\* reserve has left one unit of token2 in the pool.
C14_Witness ==
    /\ last.op = "swap_token1_given_token1"
    /\ last.res = "Ok"
    /\ last.out2 > 0
    /\ total_token2 = 1
    /\ 2 * last.out1 >= total_token1

\* C15: in every reachable state the pool's balance in the token1 ledger is
\* total_token1 and its balance in the token2 ledger is total_token2 (so the
\* assert_eq! after each inbound transfer holds).
C15_ReservesMatchLedger ==
    /\ erc1[Me] = total_token1
    /\ erc2[Me] = total_token2

\* C15 witness: tokens have gone into the pool and part of them has come out
\* again by a withdrawal, the two reserves differing.
C15_Witness ==
    /\ last.op = "remove_liquidity"
    /\ last.res = "Ok"
    /\ last.out1 > 0
    /\ total_token1 > 0
    /\ total_token1 # total_token2

\* C16: in an Active pool, remove_liquidity(share) with share at most the
\* caller's balance (an absent entry counting as 0) completes and returns the
\* withdraw estimate; it aborts only when share exceeds the caller's balance.
C16_RemoveWithinBalance ==
    [][(last'.op = "remove_liquidity" /\ active_pool) =>
          \A s \in ShareArgs(last'.caller) :
              RemoveLiquidity(last'.caller, s) =>
                  /\ BigLeq(s, balance_of(last'.caller)) =>
                        /\ last'.res = "Ok"
                        /\ last'.out1 = get_withdraw_estimate(s).amount1
                        /\ last'.out2 = get_withdraw_estimate(s).amount2
                  /\ (last'.res = "Abort") => BigLt(balance_of(last'.caller), s)]_vars

\* C17: in every state with total_shares > 0 and both reserves > 0, for every
\* amount2, add_liquidity(e, amount2) with
\* e = get_equivalent_token1_estimate_given_token2(amount2) does not fail with
\* NonEquivalentValue, and likewise add_liquidity(amount1, e) with
\* e = get_equivalent_token2_estimate_given_token1(amount1).
C17_EstimateAccepted ==
    (total_shares # Zero /\ total_token1 > 0 /\ total_token2 > 0) =>
        \A x \in Amounts :
            LET e1 == get_equivalent_token1_estimate_given_token2(x)
                e2 == get_equivalent_token2_estimate_given_token1(x)
            IN  /\ e1.res = "Ok"
                /\ add_liquidity_share(e1.val, x).res # "NonEquivalentValue"
                /\ e2.res = "Ok"
                /\ add_liquidity_share(x, e2.val).res # "NonEquivalentValue"

\* owner's share balance after the call
BalanceAfter(owner) == IF shares'[owner].some THEN shares'[owner].v ELSE Zero

\* value has moved from from to to and no other balance, nor total_shares,
\* nor a reserve has changed
MovedExactly(from, to, value) ==
    /\ \A a \in Accounts :
          BalanceAfter(a) =
              IF from = to THEN balance_of(a)
              ELSE IF a = from THEN BigSub(balance_of(a), value)
              ELSE IF a = to THEN BigAdd(balance_of(a), value)
              ELSE balance_of(a)
    /\ UNCHANGED << total_shares, total_token1, total_token2 >>

\* a transfer or transfer_from that completed moved exactly last'.share;
\* transfer_from lowered the spender's allowance by it, and no other
\* allowance changed
CompletedTransferExact ==
    (last'.op \in {"transfer", "transfer_from"} /\ last'.res = "Ok") =>
        /\ MovedExactly(last'.from, last'.to, last'.share)
        /\ \A p \in Accounts \X Accounts :
              allowances'[p] =
                  IF last'.op = "transfer_from" /\ p = << last'.from, last'.caller >>
                  THEN BigSub(allowances[p], last'.share)
                  ELSE allowances[p]

\* C18 (as claimed): a successful transfer or transfer_from moves exactly value
\* and transfer_from lowers the allowance by value; when the sender's balance
\* is below value the call returns InsufficientBalance and balances and
\* allowances are unchanged.
C18_TransferExact ==
    [][/\ CompletedTransferExact
       /\ ( /\ last'.op \in {"transfer", "transfer_from"}
            /\ BigLt(balance_of(last'.from), last'.share) ) =>
              /\ last'.res = "InsufficientBalance"
              /\ UNCHANGED << shares, allowances >>]_vars

\* C18 (amended): as claimed, except that a transfer_from whose sender's
\* balance is below value returns InsufficientBalance only when the spender's
\* allowance is at least value.
C18_TransferExactAmended ==
    [][/\ CompletedTransferExact
       /\ ( /\ last'.op \in {"transfer", "transfer_from"}
            /\ BigLt(balance_of(last'.from), last'.share)
            /\ \/ last'.op = "transfer"
               \/ BigLeq(last'.share, allowance(last'.from, last'.caller)) ) =>
              /\ last'.res = "InsufficientBalance"
              /\ UNCHANGED << shares, allowances >>]_vars

\* C18 witness: a spender has moved a non-zero quantity of another account's
\* shares to a third party or to itself.
C18_Witness ==
    /\ last.op = "transfer_from"
    /\ last.res = "Ok"
    /\ last.share # Zero
    /\ last.from # last.to
    /\ last.caller # last.from

\* path has fewer than two entries, or two consecutive entries registered in
\* neither ordering
BadPath(path) ==
    \/ Len(path) < 2
    \/ \E i \in 2 .. Len(path) : ~Registered(path[i - 1], path[i])

\* C19: swap_token(path, value) aborts exactly when path has fewer than two
\* entries or some consecutive pair is registered in neither ordering,
\* completes otherwise, and in all cases leaves the registry, the default fee,
\* the pool's state and the token ledgers unchanged.
C19_SwapTokenValidatesOnly ==
    [][(last'.op = "swap_token") =>
          \A v \in Amounts :
              SwapToken(last'.from, v) =>
                  /\ last'.res = (IF BadPath(last'.from) THEN "Abort" ELSE "Ok")
                  /\ UNCHANGED << routevars, poolvars, ledgers >>]_vars

\* C19 witness: swap_token has completed on a path of three distinct tokens,
\* one of its two hops registered in the reverse ordering.
C19_Witness ==
    /\ last.op = "swap_token"
    /\ last.res = "Ok"
    /\ Len(last.from) = 3
    /\ Cardinality({last.from[1], last.from[2], last.from[3]}) = 3
    /\ << last.from[2], last.from[1] >> \in DOMAIN pools

\* what a quote may return: a value or a typed error
Typed == {"Ok", "ZeroLiquidity", "InsufficientLiquidity"}

\* C20: for every fee from 0 to 1000, in every Active pool state and for every
\* amount, each of the four swap quotes returns a value or a typed error
\* (ZeroLiquidity, InsufficientLiquidity); none aborts.
C20_QuotesNeverAbort ==
    active_pool =>
        \A x \in Amounts :
            /\ get_swap_token1_estimate_given_token1(x).res \in Typed
            /\ get_swap_token1_estimate_given_token2(x).res \in Typed
            /\ get_swap_token2_estimate_given_token2(x).res \in Typed
            /\ get_swap_token2_estimate_given_token1(x).res \in Typed

====
